---- MODULE Spec2Model ----
(***************************************************************************)
(* Model of src/index-project.js: the indexing run of one version of a     *)
(* gypsum project.  A run is a sequence of remote calls; the model has one *)
(* action per point where the script resumes after an await, with the      *)
(* synchronous code that follows it up to the next await.  The bucket, the *)
(* issue tracker and the requests in flight are the shared state.          *)
(***************************************************************************)
EXTENDS Integers, Sequences, FiniteSets, TLC

VARIABLES
    bucket,     \* the well-known objects of the R2 bucket: key -> parsed JSON body
    objects,    \* objects[v]: the objects listed under the prefix project/v/
    closed,     \* issue numbers of the originating issues that were closed
    comments,   \* comments[n]: bodies of the comments posted on issue n
    purge,      \* bodies of the "purge project" issues created, in creation order
    run         \* run[r]: the local state of the process indexing version r

vars == <<bucket, objects, closed, comments, purge, run>>

----------------------------------------------------------------------------
(* Bounds of the model. *)

NumRuns == 2        \* processes modelled; Init starts the first one only
MaxTime == 1        \* Date.now() and stored index_time values range over 0..MaxTime
MaxKeys == 2        \* at most this many objects under the prefix
PageSize == 1       \* keys returned by one listObjectsV2 call

Run == 1..NumRuns
Clock == 0..MaxTime
ExpiresInValues == {2}          \* values of expires_in in an expiry file

----------------------------------------------------------------------------
(* Paths of internal.js, for the single project of the model. *)

lock(version) == <<"lock", version>>
expiry(version) == <<"expiry", version>>
versionMetadata(version) == <<"versionMetadata", version>>
aggregated(version) == <<"aggregated", version>>
permissions == <<"permissions", "">>
latestPersistent == <<"latestPersistent", "">>
latestAll == <<"latestAll", "">>

(* Helpers of utils.js. *)

null == [null |-> TRUE]

\* getJson: the parsed body, or null on a 404.
getJson(b, key) == IF key \in DOMAIN b THEN b[key] ELSE null

formatLatest(v, i) == [version |-> v, index_time |-> i]

\* (new Date(t)).toISOString(): a string naming the instant t.
toISOString(t) == [iso |-> t]

\* The bucket after a put and after a delete.
putObject(b, key, body) == [k \in DOMAIN b \cup {key} |-> IF k = key THEN body ELSE b[k]]
deleteObject(b, key) == [k \in DOMAIN b \ {key} |-> b[k]]

----------------------------------------------------------------------------
(* Error messages. *)

NoError == "none"
LockError == "failed to acquire the lock file for this project version"
ExpiryJobError == "failed to post an expiry job"
LatestError == "latest file should contain a 'index_time' number"
ParseError == "unexpected token in JSON"
RemoteError == "remote call failed"
CloseError == "failed to close the issue"

----------------------------------------------------------------------------
(* The job of run r: the issue that started it and the parameter file. *)

issue_number(r) == r
project == "project"
version(r) == ToString(r)
body_permissions(r) == [owners |-> version(r)]

\* State of a process before its first statement has run.
InitRun(started) ==
    [pc |-> IF started THEN "start" ELSE "idle",
     overwrite_permissions |-> FALSE,  \* body.overwrite_permissions
     index_time |-> 0,
     has_expiry |-> FALSE,
     version_meta |-> null,
     ContinuationToken |-> 0,          \* params.ContinuationToken: keys already listed
     aggregated |-> <<>>,              \* contents asked for by the getJson calls in flight
     getRejected |-> FALSE,            \* one of those getJson promises has rejected
     writes |-> <<>>,                  \* the putJson calls made, in order
     pending |-> {},                   \* indices of the writes not yet settled
     rejected |-> FALSE,               \* one of the putJson promises has rejected
     awaited |-> FALSE,                \* Promise.all(writes) has been reached
     e |-> NoError,                    \* the error caught by the top-level catch
     exitCode |-> 1,                   \* process.exitCode
     calls |-> <<>>]                   \* remote calls started, in order

\* A remote call is started; its status is 0 until the response is there.
Call(s, op, key) ==
    [s EXCEPT !.calls = Append(@, [op |-> op, key |-> key, statusCode |-> 0])]

\* The call the script is awaiting (the last one it started) has returned.
Response(s, statusCode) == [s EXCEPT !.calls[Len(s.calls)].statusCode = statusCode]

\* The status of a headObject or getObject call on a key.
status(b, key, ok) == IF ~ok THEN 500 ELSE IF key \in DOMAIN b THEN 200 ELSE 404

\* throw inside the try block: control goes to the catch, which posts the comment.
Throw(s, r, msg) ==
    Call([s EXCEPT !.pc = "comment", !.e = msg], "comment", <<"issue", ToString(issue_number(r))>>)

\* Mutant: the put request is only queued; nothing is sent before the commit.
Push_deferred(s, key, body) ==
    [s EXCEPT !.writes = Append(@, [Key |-> key, Body |-> body])]

\* writes.push(utils.putJson(...)): the put request is started at once.
Push(s, key, body) ==
    Call([s EXCEPT !.writes = Append(@, [Key |-> key, Body |-> body]),
                   !.pending = @ \cup {Len(s.writes) + 1}],
         "put", key)

Min(a, b) == IF a < b THEN a ELSE b

----------------------------------------------------------------------------
(* The decisions of the script. *)

\* Mutant: the failure of the headObject call is swallowed.
lockAcquired_swallowed(statusCode) == TRUE

\* The try/catch around the headObject call on the lock path: any failure throws.
lockAcquired(statusCode) == statusCode = 200

\* Mutant: the suffix of the key is not looked at.
endsWithJson_any(Key) == TRUE

\* f.Key.endsWith(".json")
endsWithJson(Key) == Key.json

\* One page of s3.listObjectsV2(params): at most PageSize keys after the token.
listObjectsV2(objs, token) ==
    [Contents |-> SubSeq(objs, token + 1, Min(token + PageSize, Len(objs))),
     IsTruncated |-> token + PageSize < Len(objs),
     NextContinuationToken |-> token + PageSize]

\* The getJson calls started for one page, named by the content each resolves to.
pageGets(Contents) ==
    LET json == SelectSeq(Contents, LAMBDA f : endsWithJson(f.Key))
    IN  [k \in 1..Len(json) |-> json[k].content]

\* Mutant: the permissions are written whatever the flag and the bucket say.
overwrite_always(overwrite_permissions, statusCode) == TRUE

\* Whether the permissions are written, given the flag and the outcome of the
\* headObject call (status 0 when the flag made the call unnecessary).
overwrite(overwrite_permissions, statusCode) ==
    overwrite_permissions \/ statusCode = 404

\* typeof lat_info.index_time == "number"
hasIndexTime(lat_info) == "index_time" \in DOMAIN lat_info

\* Mutant: equal timestamps overwrite too.
relatest_orEqual(lat_info, i) ==
    IF lat_info = null THEN TRUE ELSE lat_info.index_time <= i

\* Mutant: a missing pointer file is not created.
relatest_existingOnly(lat_info, i) ==
    IF lat_info = null THEN FALSE ELSE lat_info.index_time < i

\* fill_latest: whether the pointer read as lat_info is replaced by a candidate
\* of index_time i.
relatest(lat_info, i) ==
    IF lat_info = null THEN TRUE ELSE lat_info.index_time < i

\* Mutant: a pointer without index_time is taken for a missing one.
fill_latest_lenient(s, r, b, l, v, i, statusCode) ==
    IF statusCode = 500 THEN Throw(s, r, RemoteError)
    ELSE LET lat_info == getJson(b, l)
         IN  IF lat_info # null /\ ~hasIndexTime(lat_info) THEN Push(s, l, formatLatest(v, i))
             ELSE IF relatest(lat_info, i) THEN Push(s, l, formatLatest(v, i))
             ELSE s

\* fill_latest(l, v, i) once its getJson has returned or failed.
fill_latest(s, r, b, l, v, i, statusCode) ==
    IF statusCode = 500 THEN Throw(s, r, RemoteError)
    ELSE LET lat_info == getJson(b, l)
         IN  IF lat_info # null /\ ~hasIndexTime(lat_info) THEN Throw(s, r, LatestError)
             ELSE IF relatest(lat_info, i) THEN Push(s, l, formatLatest(v, i))
             ELSE s

\* Mutant: the expiry of the version is not looked at.
persistentCandidate_real(has_expiry, v, i) == formatLatest(v, i)

\* The candidate for the persistent pointer.
persistentCandidate(has_expiry, v, i) ==
    IF has_expiry THEN formatLatest("", -1) ELSE formatLatest(v, i)

\* Mutant: the all-versions pointer is offered the candidate of the persistent one.
latestAllCandidate_asPersistent(has_expiry, v, i) == persistentCandidate(has_expiry, v, i)

\* The candidate for the all-versions pointer.
latestAllCandidate(has_expiry, v, i) == formatLatest(v, i)

\* The permissions step once the flag (and the headObject call, if made) is known,
\* followed by the first call of fill_latest up to its await.
permissionsStep(s, r, statusCode) ==
    LET t == IF overwrite(s.overwrite_permissions, statusCode)
             THEN Push(s, permissions, body_permissions(r))
             ELSE s
    IN  Call([t EXCEPT !.pc = "latestPersistent"], "get", latestPersistent)

\* Mutant: the purge is due at the time of indexing.
expired_now(index_time, exp_info) == index_time

\* let expired = index_time + exp_info.expires_in
expired(index_time, exp_info) == index_time + exp_info.expires_in

\* The number the tracker gives to the next issue created.
nextIssueNumber == NumRuns + Len(purge) + 1

----------------------------------------------------------------------------
(* Initial states: the bucket as the upload left it, no process started yet. *)

\* A bucket holding the given <<key, body>> pairs.
Bucket(entries) ==
    [k \in {en[1] : en \in entries} |-> (CHOOSE en \in entries : en[1] = k)[2]]

\* An optional object: no entry, or one entry per possible body.
Optional(key, bodies) == {{}} \cup {{<<key, b>>} : b \in bodies}

\* Pointer files left by earlier runs: real versions, the placeholder of an
\* expiring version, or a file without index_time.
StoredLatestAll ==
    {formatLatest("0", t) : t \in Clock} \cup {[version |-> "0"]}
StoredLatestPersistent ==
    StoredLatestAll \cup {formatLatest("", -1)}

\* The objects under a prefix: up to MaxKeys keys, each with or without the
\* .json suffix; the content of the k-th object is k.
Listings ==
    {[k \in DOMAIN f |-> [Key |-> [name |-> k, json |-> f[k]], content |-> k]] :
        f \in UNION {[1..n -> BOOLEAN] : n \in 0..MaxKeys}}

\* The listing of the bucket whose pointer files vary.
OneJson == <<[Key |-> [name |-> 1, json |-> TRUE], content |-> 1]>>

\* The initial bucket and listing of the version that run r indexes.  The lock, the
\* expiry file and the permissions vary freely; then either the two pointer files
\* vary and one .json object is listed, or the listing varies and no pointer file
\* exists yet (the aggregation and the pointer step share no data).
InitBucket(r, l) ==
    \E lck \in Optional(lock(version(r)), {[locked |-> TRUE]}),
       ex \in Optional(expiry(version(r)), {[expires_in |-> x] : x \in ExpiresInValues}),
       pm \in Optional(permissions, {[owners |-> "0"]}),
       lp \in Optional(latestPersistent, StoredLatestPersistent),
       la \in Optional(latestAll, StoredLatestAll) :
        /\ l = OneJson \/ (lp = {} /\ la = {})
        /\ bucket = Bucket(lck \cup ex \cup pm \cup lp \cup la)

Init ==
    /\ \E l \in Listings :
          /\ InitBucket(1, l)
          /\ objects = [v \in {version(r) : r \in Run} |-> IF v = version(1) THEN l ELSE <<>>]
    /\ closed = {}
    /\ comments = [n \in {issue_number(r) : r \in Run} |-> <<>>]
    /\ purge = <<>>
    /\ run = [r \in Run |-> InitRun(r = 1)]

----------------------------------------------------------------------------
(* The script, one action per await. *)

\* Lines 28-66: the setup checks, the parameter file, the headObject call on the lock.
Setup(r) ==
    /\ run[r].pc = "start"
    /\ \E env \in {"ok", "missing R2 credentials", "missing GitHub bot token",
                    "expected 4 arguments"},
          parses \in BOOLEAN, flag \in BOOLEAN :
          run' = [run EXCEPT ![r] =
                    IF env # "ok" THEN [@ EXCEPT !.pc = "setupError"]
                    ELSE IF ~parses THEN Throw(@, r, ParseError)
                    ELSE Call([@ EXCEPT !.pc = "headLock", !.overwrite_permissions = flag],
                              "head", lock(version(r)))]
    /\ UNCHANGED <<bucket, objects, closed, comments, purge>>

\* Lines 68-84: the lock check returns; Date.now(); getJson on the expiry file.
LockChecked(r) ==
    /\ run[r].pc = "headLock"
    /\ \E ok \in BOOLEAN, now \in Clock :
          LET statusCode == status(bucket, lock(version(r)), ok)
              s == Response(run[r], statusCode)
          IN  run' = [run EXCEPT ![r] =
                        IF lockAcquired(statusCode)
                        THEN Call([s EXCEPT !.pc = "getExpiry",
                                            !.index_time = now,
                                            !.version_meta = [upload_time |-> toISOString(0),
                                                              index_time |-> toISOString(now)]],
                                  "get", expiry(version(r)))
                        ELSE Throw(s, r, LockError)]
    /\ UNCHANGED <<bucket, objects, closed, comments, purge>>

\* Lines 112-122: the version metadata is put and the first page is asked for.
putVersionMetadata(s, r) ==
    Call([Push(s, versionMetadata(version(r)), s.version_meta) EXCEPT !.pc = "list"],
         "list", <<"prefix", version(r)>>)

\* Lines 84-89: the expiry file is read; the purge issue is posted if there is one.
ExpiryRead(r) ==
    /\ run[r].pc = "getExpiry"
    /\ \E ok \in BOOLEAN :
          LET exp_info == getJson(bucket, expiry(version(r)))
              s == Response(run[r], status(bucket, expiry(version(r)), ok))
          IN  run' = [run EXCEPT ![r] =
                        IF ~ok THEN Throw(s, r, RemoteError)
                        ELSE IF exp_info # null
                        THEN Call([s EXCEPT !.pc = "postExpiry",
                                            !.has_expiry = TRUE,
                                            !.version_meta =
                                                [upload_time |-> @.upload_time,
                                                 index_time |-> @.index_time,
                                                 expiry_time |->
                                                    toISOString(expired(s.index_time, exp_info))]],
                                  "post", <<"issues", "">>)
                        ELSE putVersionMetadata(s, r)]
    /\ UNCHANGED <<bucket, objects, closed, comments, purge>>

\* Mutant: the answer of the tracker is not looked at.
ExpiryPosted_unchecked(r) ==
    /\ run[r].pc = "postExpiry"
    /\ run' = [run EXCEPT ![r] = putVersionMetadata(Response(@, 500), r)]
    /\ UNCHANGED <<bucket, objects, closed, comments, purge>>

\* Lines 89-122: the tracker answers the creation of the purge issue.
ExpiryPosted(r) ==
    /\ run[r].pc = "postExpiry"
    /\ \E ok \in BOOLEAN :
          IF ok
          THEN /\ purge' = Append(purge,
                       [number |-> nextIssueNumber,
                        title |-> "purge project",
                        body |-> [project |-> project,
                                  version |-> version(r),
                                  mode |-> "expiry",
                                  delete_after |-> run[r].version_meta.expiry_time.iso]])
               /\ run' = [run EXCEPT ![r] =
                            putVersionMetadata(
                                [Response(@, 201) EXCEPT !.version_meta =
                                    [upload_time |-> @.upload_time,
                                     index_time |-> @.index_time,
                                     expiry_time |-> @.expiry_time,
                                     expiry_job_id |-> nextIssueNumber]], r)]
          ELSE /\ purge' = purge
               /\ run' = [run EXCEPT ![r] = Throw(Response(@, 500), r, ExpiryJobError)]
    /\ UNCHANGED <<bucket, objects, closed, comments>>

\* Lines 122-137: a page of the listing returns; a getJson is started for each
\* .json key; the next page is asked for, or Promise.all(aggregated) is awaited.
Listed(r) ==
    /\ run[r].pc = "list"
    /\ \E ok \in BOOLEAN :
          LET info == listObjectsV2(objects[version(r)], run[r].ContinuationToken)
              s == Response(run[r], IF ok THEN 200 ELSE 500)
          IN  run' = [run EXCEPT ![r] =
                        IF ~ok THEN Throw(s, r, RemoteError)
                        ELSE IF info.IsTruncated
                        THEN Call([s EXCEPT !.aggregated = @ \o pageGets(info.Contents),
                                            !.ContinuationToken = info.NextContinuationToken],
                                  "list", <<"prefix", version(r)>>)
                        ELSE [s EXCEPT !.aggregated = @ \o pageGets(info.Contents),
                                       !.ContinuationToken = 0,
                                       !.pc = "allAggregated"]]
    /\ UNCHANGED <<bucket, objects, closed, comments, purge>>

\* One of the getJson calls of the aggregation fails.
GetRejects(r) ==
    /\ run[r].pc # "unhandled"
    /\ run[r].aggregated # <<>>
    /\ ~run[r].getRejected
    /\ run' = [run EXCEPT ![r].getRejected = TRUE]
    /\ UNCHANGED <<bucket, objects, closed, comments, purge>>

\* Lines 137-168: Promise.all(aggregated) settles; the aggregated file is put;
\* the permissions are checked (headObject) unless they are to be overwritten.
AggregatedResolved(r) ==
    /\ run[r].pc = "allAggregated"
    /\ run' = [run EXCEPT ![r] =
                 IF @.getRejected
                 THEN Throw([@ EXCEPT !.aggregated = <<>>, !.getRejected = FALSE], r, RemoteError)
                 ELSE LET t == Push([@ EXCEPT !.aggregated = <<>>],
                                    aggregated(version(r)), @.aggregated)
                      IN  IF ~t.overwrite_permissions
                          THEN Call([t EXCEPT !.pc = "headPerm"], "head", permissions)
                          ELSE permissionsStep(t, r, 0)]
    /\ UNCHANGED <<bucket, objects, closed, comments, purge>>

\* Lines 149-168: the headObject call on the permissions returns.
PermissionsChecked(r) ==
    /\ run[r].pc = "headPerm"
    /\ \E ok \in BOOLEAN :
          LET statusCode == status(bucket, permissions, ok)
              s == Response(run[r], statusCode)
          IN  run' = [run EXCEPT ![r] =
                        IF statusCode = 500 THEN Throw(s, r, RemoteError)
                        ELSE permissionsStep(s, r, statusCode)]
    /\ UNCHANGED <<bucket, objects, closed, comments, purge>>

\* Lines 168-197: the getJson of the first fill_latest returns.
LatestPersistentRead(r) ==
    /\ run[r].pc = "latestPersistent"
    /\ \E ok \in BOOLEAN :
          LET c == persistentCandidate(run[r].has_expiry, version(r), run[r].index_time)
              statusCode == status(bucket, latestPersistent, ok)
              t == fill_latest(Response(run[r], statusCode), r, bucket, latestPersistent,
                               c.version, c.index_time, statusCode)
          IN  run' = [run EXCEPT ![r] =
                        IF t.pc = "comment" THEN t
                        ELSE Call([t EXCEPT !.pc = "latestAll"], "get", latestAll)]
    /\ UNCHANGED <<bucket, objects, closed, comments, purge>>

\* Lines 168-200: the getJson of the second fill_latest returns; Promise.all(writes).
LatestAllRead(r) ==
    /\ run[r].pc = "latestAll"
    /\ \E ok \in BOOLEAN :
          LET c == latestAllCandidate(run[r].has_expiry, version(r), run[r].index_time)
              statusCode == status(bucket, latestAll, ok)
              t == fill_latest(Response(run[r], statusCode), r, bucket, latestAll,
                               c.version, c.index_time, statusCode)
          IN  run' = [run EXCEPT ![r] =
                        IF t.pc = "comment" THEN t
                        ELSE [t EXCEPT !.pc = "allWrites", !.awaited = TRUE]]
    /\ UNCHANGED <<bucket, objects, closed, comments, purge>>

\* A put request in flight is applied by the bucket and its promise resolves.
PutResolves(r) ==
    /\ \E w \in run[r].pending :
          /\ bucket' = putObject(bucket, run[r].writes[w].Key, run[r].writes[w].Body)
          /\ run' = [run EXCEPT ![r].pending = @ \ {w}]
    /\ UNCHANGED <<objects, closed, comments, purge>>

\* A put request in flight is refused by the bucket and its promise rejects.  Only
\* the first rejection is told apart: Promise.all(writes) rejects with it, and a
\* request refused after it is one that is never applied.
PutRejects(r) ==
    /\ run[r].pc # "unhandled"
    /\ ~run[r].rejected
    /\ \E w \in run[r].pending :
          run' = [run EXCEPT ![r].pending = @ \ {w}, ![r].rejected = TRUE]
    /\ UNCHANGED <<bucket, objects, closed, comments, purge>>

\* Mutant: the writes are not awaited.
writesSettled_unawaited(s) == "resolved"

\* Promise.all(writes): it resolves when every write has, it rejects with the first
\* rejection.
writesSettled(s) ==
    IF s.rejected THEN "rejected"
    ELSE IF s.pending = {} THEN "resolved"
    ELSE "pending"

\* Lines 200-205: Promise.all(writes) settles; the lock is deleted.
WritesSettled(r) ==
    /\ run[r].pc = "allWrites"
    /\ writesSettled(run[r]) # "pending"
    /\ run' = [run EXCEPT ![r] =
                 IF writesSettled(@) = "rejected" THEN Throw(@, r, RemoteError)
                 ELSE Call([@ EXCEPT !.pc = "deleteLock"], "delete", lock(version(r)))]
    /\ UNCHANGED <<bucket, objects, closed, comments, purge>>

\* Lines 205-209: the deleteObject call returns; the issue is closed.
LockDeleted(r) ==
    /\ run[r].pc = "deleteLock"
    /\ \E ok \in BOOLEAN :
          IF ok
          THEN /\ bucket' = deleteObject(bucket, lock(version(r)))
               /\ run' = [run EXCEPT ![r] =
                            Call([Response(@, 200) EXCEPT !.pc = "closeIssue"],
                                 "close", <<"issue", ToString(issue_number(r))>>)]
          ELSE /\ bucket' = bucket
               /\ run' = [run EXCEPT ![r] = Throw(Response(@, 500), r, RemoteError)]
    /\ UNCHANGED <<objects, closed, comments, purge>>

\* Lines 209-224: utils.closeIssue returns; the script ends.
IssueClosed(r) ==
    /\ run[r].pc = "closeIssue"
    /\ \E ok \in BOOLEAN :
          IF ok
          THEN /\ closed' = closed \cup {issue_number(r)}
               /\ run' = [run EXCEPT ![r] =
                            [Response(@, 200) EXCEPT !.pc = "end", !.exitCode = 0]]
          ELSE /\ closed' = closed
               /\ run' = [run EXCEPT ![r] = Throw(Response(@, 500), r, CloseError)]
    /\ UNCHANGED <<bucket, objects, comments, purge>>

\* Mutant: the catch block releases the lock as well.
Commented_unlocks(r) ==
    /\ run[r].pc = "comment"
    /\ comments' = [comments EXCEPT ![issue_number(r)] = Append(@, run[r].e)]
    /\ bucket' = deleteObject(bucket, lock(version(r)))
    /\ run' = [run EXCEPT ![r] = [Response(@, 201) EXCEPT !.pc = "end", !.exitCode = 0]]
    /\ UNCHANGED <<objects, closed, purge>>

\* Lines 211-224: the comment has been posted; the script ends.
Commented(r) ==
    /\ run[r].pc = "comment"
    /\ comments' = [comments EXCEPT ![issue_number(r)] = Append(@, run[r].e)]
    /\ run' = [run EXCEPT ![r] = [Response(@, 201) EXCEPT !.pc = "end", !.exitCode = 0]]
    /\ UNCHANGED <<bucket, objects, closed, purge>>

\* A promise that nothing awaits yet has rejected: a putJson promise before
\* Promise.all(writes) is reached, a getJson promise of the aggregation outside
\* Promise.all(aggregated).  Node may end the process on the unhandled rejection.
unhandledRejection(s) ==
    \/ s.rejected /\ ~s.awaited
    \/ s.getRejected /\ s.pc # "allAggregated"

UnhandledRejection(r) ==
    /\ run[r].pc \notin {"idle", "start", "setupError", "unhandled"}
    /\ unhandledRejection(run[r])
    /\ run' = [run EXCEPT ![r].pc = "unhandled", ![r].exitCode = 1]
    /\ UNCHANGED <<bucket, objects, closed, comments, purge>>

----------------------------------------------------------------------------

Next ==
    \E r \in Run :
        \/ Setup(r)
        \/ LockChecked(r)
        \/ ExpiryRead(r)
        \/ ExpiryPosted(r)
        \/ Listed(r)
        \/ GetRejects(r)
        \/ AggregatedResolved(r)
        \/ PermissionsChecked(r)
        \/ LatestPersistentRead(r)
        \/ LatestAllRead(r)
        \/ PutResolves(r)
        \/ PutRejects(r)
        \/ WritesSettled(r)
        \/ LockDeleted(r)
        \/ IssueClosed(r)
        \/ Commented(r)
        \/ UnhandledRejection(r)

Spec == Init /\ [][Next]_vars

----------------------------------------------------------------------------
(* Overlapping runs.  The workflow starts one process per "upload complete"  *)
(* issue and sets no concurrency group, so the processes of two versions of  *)
(* a project may overlap.  The specification below explores the overlaps in  *)
(* which a version is uploaded while the run of the first version is in its  *)
(* latest-pointer step.                                                      *)

\* The bucket after the uploads: every version has its lock, the first version
\* has an expiry file and one .json object, the project has its permissions and
\* no pointer file yet.
InitConcurrent ==
    /\ bucket = Bucket({<<lock(version(r)), [locked |-> TRUE]>> : r \in Run}
                       \cup {<<expiry(version(1)), [expires_in |-> x]>> : x \in ExpiresInValues}
                       \cup {<<permissions, [owners |-> "0"]>>})
    /\ objects = [v \in {version(r) : r \in Run} |-> IF v = version(1) THEN OneJson ELSE <<>>]
    /\ closed = {}
    /\ comments = [n \in {issue_number(r) : r \in Run} |-> <<>>]
    /\ purge = <<>>
    /\ run = [r \in Run |-> InitRun(r = 1)]

\* Process r has been started and has not ended.
Live(r) == run[r].pc \notin {"idle", "end", "unhandled", "setupError"}

\* The issue of another version is opened and the workflow starts its process,
\* while the only live process is between the two reads of its latest-pointer
\* step, its earlier writes stored.
Start(r) ==
    /\ run[r].pc = "idle"
    /\ \E q \in Run \ {r} :
          /\ run[q].pc = "latestAll"
          /\ ~run[q].rejected
          /\ \A w \in run[q].pending : run[q].writes[w].Key = latestPersistent
          /\ \A o \in Run \ {q} : ~Live(o)
    /\ run' = [run EXCEPT ![r].pc = "start"]
    /\ UNCHANGED <<bucket, objects, closed, comments, purge>>

NextConcurrent ==
    \/ Next
    \/ \E r \in Run : Start(r)

SpecConcurrent == InitConcurrent /\ [][NextConcurrent]_vars

----------------------------------------------------------------------------
(* Properties. *)

\* Run r has started a call op on key / has had the answer statusCode to it.
Called(r, op, key) ==
    \E k \in DOMAIN run[r].calls : run[r].calls[k].op = op /\ run[r].calls[k].key = key
Answered(r, op, key, statusCode) ==
    \E k \in DOMAIN run[r].calls :
        /\ run[r].calls[k].op = op
        /\ run[r].calls[k].key = key
        /\ run[r].calls[k].statusCode = statusCode
Ops(r) == {run[r].calls[k].op : k \in DOMAIN run[r].calls}
issue(r) == <<"issue", ToString(issue_number(r))>>

\* C1: when the headObject call on the lock fails (the lock object is absent, or
\* the call is refused), the run fails with the lock error and writes nothing: it
\* starts no put and no delete, creates no purge issue and does not close the
\* issue; the only thing it does is to post the lock error as a comment.
C1_NoLockNoWrites ==
    \A r \in Run :
        (Answered(r, "head", lock(version(r)), 404) \/ Answered(r, "head", lock(version(r)), 500))
        => /\ run[r].e = LockError
           /\ run[r].pc \in {"comment", "end"}
           /\ run[r].writes = <<>>
           /\ Ops(r) = {"head", "comment"}
           /\ \A k \in DOMAIN purge : purge[k].body.version # version(r)
           /\ issue_number(r) \notin closed
           /\ run[r].pc = "end" => comments[issue_number(r)] = <<LockError>>

C1_Witness ==
    \E r \in Run :
        /\ lock(version(r)) \notin DOMAIN bucket
        /\ Answered(r, "head", lock(version(r)), 404)
        /\ run[r].pc = "end"

\* The step of run r is the return of fill_latest(l, ...) without a throw.
FillLatestReturns(r, l) ==
    \/ l = latestPersistent /\ run[r].pc = "latestPersistent" /\ run'[r].pc = "latestAll"
    \/ l = latestAll /\ run[r].pc = "latestAll" /\ run'[r].pc = "allWrites"

\* The step of run r starts exactly one put, of body on key / starts no put.
PutStarted(r, key, body) ==
    /\ Len(run'[r].writes) = Len(run[r].writes) + 1
    /\ SubSeq(run'[r].writes, 1, Len(run[r].writes)) = run[r].writes
    /\ run'[r].writes[Len(run'[r].writes)].Key = key
    /\ run'[r].writes[Len(run'[r].writes)].Body = body
    /\ Len(run'[r].writes) \in run'[r].pending
NoPutStarted(r) == run'[r].writes = run[r].writes

\* The candidate (version, index_time) that run r offers for pointer l.
Candidate(r, l) ==
    IF l = latestPersistent /\ run[r].has_expiry
    THEN [version |-> "", index_time |-> -1]
    ELSE [version |-> version(r), index_time |-> run[r].index_time]

\* C2: in every update of a latest pointer (persistent or all-versions), the
\* candidate is written when no pointer object exists or when the stored numeric
\* index_time is strictly less than the candidate's, and nothing is written when
\* the stored index_time is equal to or greater than the candidate's.
C2_StrictlyNewerOverwrites ==
    [][\A r \in Run : \A l \in {latestPersistent, latestAll} :
        FillLatestReturns(r, l) =>
            IF l \notin DOMAIN bucket
            THEN PutStarted(r, l, Candidate(r, l))
            ELSE IF bucket[l].index_time < Candidate(r, l).index_time
            THEN PutStarted(r, l, Candidate(r, l))
            ELSE NoPutStarted(r)]_vars

\* An existing persistent pointer with an older index_time has been read and the
\* put of the candidate is in flight.
C2_Witness ==
    \E r \in Run :
        /\ run[r].pc = "latestAll"
        /\ ~run[r].has_expiry
        /\ latestPersistent \in DOMAIN bucket
        /\ hasIndexTime(bucket[latestPersistent])
        /\ bucket[latestPersistent].index_time < run[r].index_time
        /\ \E w \in run[r].pending :
              /\ run[r].writes[w].Key = latestPersistent
              /\ run[r].writes[w].Body = formatLatest(version(r), run[r].index_time)

\* The puts that a run in local state s has started on a key.
PutsOf(s, key) == {w \in DOMAIN s.writes : s.writes[w].Key = key}
PutsOn(r, key) == PutsOf(run[r], key)

\* C3: a run of an expiring version starts a put on the persistent pointer only
\* when the getJson of that pointer found no object, and the body it puts is the
\* placeholder (empty version, index_time -1); if an object exists at that path,
\* whatever it holds, the run starts no put on it.
C3_ExpiringWritesOnlyWhenAbsent ==
    [][\A r \in Run :
        run'[r].has_expiry =>
            /\ \A w \in PutsOf(run'[r], latestPersistent) \ PutsOn(r, latestPersistent) :
                  /\ run[r].pc = "latestPersistent"
                  /\ latestPersistent \notin DOMAIN bucket
                  /\ run'[r].writes[w].Body = [version |-> "", index_time |-> -1]
            /\ (run[r].pc = "latestPersistent" /\ run'[r].pc = "latestAll"
                    /\ latestPersistent \notin DOMAIN bucket)
                => PutStarted(r, latestPersistent, [version |-> "", index_time |-> -1])]_vars

\* An expiring version has met a real pointer older than itself and has left it.
C3_Witness ==
    \E r \in Run :
        /\ run[r].has_expiry
        /\ run[r].pc = "allWrites"
        /\ latestPersistent \in DOMAIN bucket
        /\ hasIndexTime(bucket[latestPersistent])
        /\ bucket[latestPersistent].version = "0"
        /\ bucket[latestPersistent].index_time < run[r].index_time
        /\ PutsOn(r, latestPersistent) = {}

\* C4: a run starts a put of the permissions, with the permissions of its
\* parameters as body and at most once, if and only if it has reached the
\* permissions step and either overwrite_permissions is true or the headObject
\* call on the permissions has returned 404; with the flag false and the object
\* found (or the call failed), no put of the permissions is started.
C4_PermissionsWrittenIff ==
    \A r \in Run :
        /\ PutsOn(r, permissions) # {}
           <=> \/ run[r].overwrite_permissions /\ PutsOn(r, aggregated(version(r))) # {}
               \/ Answered(r, "head", permissions, 404)
        /\ Cardinality(PutsOn(r, permissions)) <= 1
        /\ \A w \in PutsOn(r, permissions) : run[r].writes[w].Body = body_permissions(r)
        /\ run[r].overwrite_permissions => ~Called(r, "head", permissions)

\* The flag is false, the permissions were not found, and they have been put.
C4_Witness ==
    \E r \in Run :
        /\ ~run[r].overwrite_permissions
        /\ Answered(r, "head", permissions, 404)
        /\ permissions \in DOMAIN bucket
        /\ bucket[permissions] = body_permissions(r)

\* C5 as claimed: a run that has caught an error has not deleted the lock it held.
C5_Claimed_FailedRunKeepsLock ==
    \A r \in Run :
        (run[r].e # NoError /\ Answered(r, "head", lock(version(r)), 200))
        => lock(version(r)) \in DOMAIN bucket

\* C5, amended: a run that has caught an error raised by any step from the lock
\* check to the deletion of the lock has not deleted the lock it held; a run whose
\* error is raised by the closing of the issue has deleted the lock before.
C5_FailedBeforeCloseKeepsLock ==
    \A r \in Run :
        (run[r].e # NoError /\ Answered(r, "head", lock(version(r)), 200))
        => IF Answered(r, "close", issue(r), 500)
           THEN lock(version(r)) \notin DOMAIN bucket
           ELSE lock(version(r)) \in DOMAIN bucket /\ ~Called(r, "close", issue(r))

\* The deletion of the lock was refused: the error is reported and the lock stays.
C5_Witness ==
    \E r \in Run :
        /\ run[r].pc = "end"
        /\ run[r].e = RemoteError
        /\ Answered(r, "delete", lock(version(r)), 500)
        /\ lock(version(r)) \in DOMAIN bucket
        /\ comments[issue_number(r)] = <<RemoteError>>

\* The process of run r is over, by the end of the script or by an uncaught error.
Terminated(r) == run[r].pc \in {"end", "unhandled", "setupError"}

\* A step of run r, from the lock check on, has raised an error: the catch was
\* entered, or a put or a get started by the run was refused.
Raised(r) == run[r].e # NoError \/ run[r].rejected \/ run[r].getRejected

\* C6 as claimed: when the process is over after setup, a run in which a step has
\* raised an error has posted exactly one comment, the error message, and has not
\* closed the issue; a run in which no step has raised an error has posted none.
C6_Claimed_OneCommentPerFailure ==
    \A r \in Run :
        run[r].pc \in {"end", "unhandled"}
        => IF Raised(r)
           THEN /\ Len(comments[issue_number(r)]) = 1
                /\ issue_number(r) \notin closed
           ELSE comments[issue_number(r)] = <<>>

\* C7 as claimed: a process that has passed the setup ends with exit code 0, and
\* a process that ends with another exit code has failed in the setup.
C7_Claimed_ExitCodeZero ==
    \A r \in Run :
        Terminated(r) => (run[r].exitCode # 0 <=> run[r].pc = "setupError")

\* The contents of the .json objects of a listing, in listing order.
JsonContents(objs) ==
    LET json == SelectSeq(objs, LAMBDA f : f.Key.json)
    IN  [k \in 1..Len(json) |-> json[k].content]

\* C8: the body of the aggregated file that a run puts, and the file in the bucket,
\* is the sequence of the contents of the objects under the prefix whose key ends
\* in .json, over all pages, in listing order, each once, and nothing else.
C8_AggregatedIsAllJson ==
    \A r \in Run :
        /\ Cardinality(PutsOn(r, aggregated(version(r)))) <= 1
        /\ \A w \in PutsOn(r, aggregated(version(r))) :
              run[r].writes[w].Body = JsonContents(objects[version(r)])
        /\ aggregated(version(r)) \in DOMAIN bucket
           => bucket[aggregated(version(r))] = JsonContents(objects[version(r)])

\* The aggregated file of a listing of several pages, with and without .json keys,
\* is in the bucket.
C8_Witness ==
    \E r \in Run :
        /\ aggregated(version(r)) \in DOMAIN bucket
        /\ Len(objects[version(r)]) > PageSize
        /\ \E k \in DOMAIN objects[version(r)] : objects[version(r)][k].Key.json
        /\ \E k \in DOMAIN objects[version(r)] : ~objects[version(r)][k].Key.json

\* Run r has ended without an error, having found no expiry file, no pointer file
\* and (if it looked) no permissions.
CleanRun(r) ==
    /\ run[r].pc = "end"
    /\ run[r].e = NoError
    /\ Answered(r, "get", expiry(version(r)), 404)
    /\ Answered(r, "get", latestPersistent, 404)
    /\ Answered(r, "get", latestAll, 404)
    /\ run[r].overwrite_permissions \/ Answered(r, "head", permissions, 404)

\* C9: after a run with the lock present, no pointer file, no permissions, no
\* expiry file and no failing call, the bucket holds the version metadata and the
\* aggregated file, both pointers hold the version and the index_time of the run,
\* the permissions of the parameters are stored, the lock is gone, the issue is
\* closed without a comment and no purge issue exists.
C9_EndToEnd ==
    \A r \in Run :
        CleanRun(r)
        => /\ {versionMetadata(version(r)), aggregated(version(r)), permissions,
               latestPersistent, latestAll} \subseteq DOMAIN bucket
           /\ bucket[versionMetadata(version(r))] =
                  [upload_time |-> [iso |-> 0], index_time |-> [iso |-> run[r].index_time]]
           /\ bucket[aggregated(version(r))] = JsonContents(objects[version(r)])
           /\ bucket[latestPersistent] =
                  [version |-> version(r), index_time |-> run[r].index_time]
           /\ bucket[latestAll] = bucket[latestPersistent]
           /\ bucket[permissions] = body_permissions(r)
           /\ lock(version(r)) \notin DOMAIN bucket
           /\ issue_number(r) \in closed
           /\ comments[issue_number(r)] = <<>>
           /\ purge = <<>>

\* The scenario has run to its end on a prefix with two .json objects.
C9_Witness ==
    \E r \in Run :
        /\ CleanRun(r)
        /\ ~run[r].overwrite_permissions
        /\ Len(JsonContents(objects[version(r)])) = 2

\* C10: when the deletion of the lock is started, every put of the run (version
\* metadata, aggregated file, permissions, pointers) has resolved and is in the
\* bucket; the closing of the issue is started only when the deletion has succeeded,
\* and the issue is closed only with the lock gone.
C10_WritesThenUnlockThenClose ==
    \A r \in Run :
        /\ Called(r, "delete", lock(version(r)))
           => /\ run[r].pending = {}
              /\ ~run[r].rejected
              /\ PutsOn(r, versionMetadata(version(r))) # {}
              /\ PutsOn(r, aggregated(version(r))) # {}
              /\ \A w \in DOMAIN run[r].writes :
                    /\ run[r].writes[w].Key \in DOMAIN bucket
                    /\ bucket[run[r].writes[w].Key] = run[r].writes[w].Body
        /\ \A j, k \in DOMAIN run[r].calls :
              \/ run[r].calls[j].op = "put" /\ run[r].calls[k].op \in {"delete", "close"}
              \/ run[r].calls[j].op = "delete" /\ run[r].calls[k].op = "close"
              => j < k
        /\ Called(r, "close", issue(r))
           => /\ Answered(r, "delete", lock(version(r)), 200)
              /\ lock(version(r)) \notin DOMAIN bucket
        /\ issue_number(r) \in closed => Answered(r, "close", issue(r), 200)

\* A run with five puts has closed its issue.
C10_Witness ==
    \E r \in Run :
        /\ issue_number(r) \in closed
        /\ Len(run[r].writes) = 5

\* The position in the calls of run r of its first call op on key (0 if none).
FirstCall(r, op, key) ==
    IF Called(r, op, key)
    THEN CHOOSE k \in DOMAIN run[r].calls :
            /\ run[r].calls[k].op = op /\ run[r].calls[k].key = key
            /\ \A j \in 1..(k - 1) : ~(run[r].calls[j].op = op /\ run[r].calls[j].key = key)
    ELSE 0
prefix(r) == <<"prefix", version(r)>>

\* C11 as claimed: a run that has not completed the latest-pointer step has issued
\* no storage write.
C11_Claimed_NoWriteBeforeCommit ==
    \A r \in Run : ~run[r].awaited => run[r].writes = <<>>

\* C11, amended: each write is issued by the step that produces it and all are
\* awaited together in the commit step.  The put of the version metadata is sent
\* at the end of the expiry step, before the first listing call; the put of the
\* aggregated file is sent before the permissions and the pointers are looked at;
\* every put of a pointer is sent right after the read of that pointer.  Only a
\* run that fails in the lock check or in the expiry step has issued no storage
\* write.
C11_WritesIssuedAsProduced ==
    \A r \in Run :
        /\ run[r].writes = <<>> <=> ~Called(r, "list", prefix(r))
        /\ Called(r, "list", prefix(r))
           => /\ run[r].writes[1].Key = versionMetadata(version(r))
              /\ 0 < FirstCall(r, "put", versionMetadata(version(r)))
              /\ FirstCall(r, "put", versionMetadata(version(r))) < FirstCall(r, "list", prefix(r))
        /\ Called(r, "get", latestPersistent)
           => /\ run[r].writes[2].Key = aggregated(version(r))
              /\ 0 < FirstCall(r, "put", aggregated(version(r)))
              /\ FirstCall(r, "put", aggregated(version(r))) < FirstCall(r, "get", latestPersistent)
        /\ \A l \in {latestPersistent, latestAll} :
              PutsOn(r, l) # {} => FirstCall(r, "put", l) = FirstCall(r, "get", l) + 1
        /\ \A w \in run[r].pending : Called(r, "put", run[r].writes[w].Key)

\* A run has failed in the aggregation step, before the commit, and its version
\* metadata is in the bucket.
C11_Witness ==
    \E r \in Run :
        /\ run[r].pc = "end"
        /\ ~run[r].awaited
        /\ Answered(r, "list", prefix(r), 500)
        /\ versionMetadata(version(r)) \in DOMAIN bucket

\* The pointer file l holds a real version / holds an index_time.
HoldsVersion(b, l) == l \in DOMAIN b /\ "version" \in DOMAIN b[l] /\ b[l].version # ""
HoldsIndexTime(b, l) == l \in DOMAIN b /\ hasIndexTime(b[l])

\* C12 as claimed: in every interleaving of runs of different versions of the
\* project, once the persistent pointer holds a non-empty version, it holds a
\* non-empty version after every further step: the placeholder of an expiring
\* version never replaces it.
C12_Claimed_RealNeverReplacedByPlaceholder ==
    [][HoldsVersion(bucket, latestPersistent)
        => HoldsVersion(bucket', latestPersistent)]_vars

\* C13 as claimed: in every interleaving of runs, no step lowers the index_time
\* held by the all-versions pointer.
C13_Claimed_IndexTimeNeverDecreases ==
    [][HoldsIndexTime(bucket, latestAll)
        => /\ HoldsIndexTime(bucket', latestAll)
           /\ bucket'[latestAll].index_time >= bucket[latestAll].index_time]_vars

\* The purge issues created for the version of run r.
PurgeOf(r) == {k \in DOMAIN purge : purge[k].body.version = version(r)}

\* C14: a run asks the tracker for a purge issue if and only if its read of the
\* expiry file found one, and at most once; the issue created has the title
\* "purge project" and the body {project, version, mode "expiry", delete_after}
\* with delete_after = index_time + expires_in; the version metadata the run puts
\* then carries expiry_time, that same instant, and expiry_job_id, the number the
\* tracker returned; with no expiry file the version metadata has neither field
\* and no purge issue is created.
C14_PurgeIssueIffExpiry ==
    \A r \in Run :
        LET posts == {k \in DOMAIN run[r].calls : run[r].calls[k].op = "post"}
            due == run[r].index_time + bucket[expiry(version(r))].expires_in
        IN  /\ Called(r, "post", <<"issues", "">>) <=> Answered(r, "get", expiry(version(r)), 200)
            /\ run[r].has_expiry <=> Answered(r, "get", expiry(version(r)), 200)
            /\ Cardinality(posts) <= 1
            /\ Cardinality(PurgeOf(r)) <= 1
            /\ PurgeOf(r) # {} <=> Answered(r, "post", <<"issues", "">>, 201)
            /\ \A k \in PurgeOf(r) :
                  /\ purge[k].title = "purge project"
                  /\ purge[k].body = [project |-> project, version |-> version(r),
                                      mode |-> "expiry", delete_after |-> due]
            /\ Cardinality(PutsOn(r, versionMetadata(version(r)))) <= 1
            /\ \A w \in PutsOn(r, versionMetadata(version(r))) :
                  IF run[r].has_expiry
                  THEN \E k \in PurgeOf(r) :
                          run[r].writes[w].Body =
                              [upload_time |-> toISOString(0),
                               index_time |-> toISOString(run[r].index_time),
                               expiry_time |-> toISOString(due),
                               expiry_job_id |-> purge[k].number]
                  ELSE /\ PurgeOf(r) = {}
                       /\ run[r].writes[w].Body =
                              [upload_time |-> toISOString(0),
                               index_time |-> toISOString(run[r].index_time)]

\* A run of a version with an expiry file has ended without error: the purge issue
\* exists and the stored version metadata names it.
C14_Witness ==
    \E r \in Run :
        /\ run[r].pc = "end"
        /\ run[r].e = NoError
        /\ run[r].index_time > 0
        /\ PurgeOf(r) # {}
        /\ versionMetadata(version(r)) \in DOMAIN bucket
        /\ \E k \in PurgeOf(r) :
              bucket[versionMetadata(version(r))].expiry_job_id = purge[k].number

\* C15: when the tracker refuses the creation of the purge issue, the run fails
\* with the expiry job error, which it posts as a comment; it has started no put
\* (version metadata, aggregated file, permissions, pointers), no listing, no
\* deletion of the lock and no closing of the issue: the lock stays, the issue
\* stays open and no purge issue exists for the version.
C15_FailedPurgeIssueNoWrites ==
    \A r \in Run :
        Answered(r, "post", <<"issues", "">>, 500)
        => /\ run[r].e = ExpiryJobError
           /\ run[r].pc \in {"comment", "end"}
           /\ run[r].writes = <<>>
           /\ Ops(r) = {"head", "get", "post", "comment"}
           /\ lock(version(r)) \in DOMAIN bucket
           /\ issue_number(r) \notin closed
           /\ PurgeOf(r) = {}
           /\ \A k \in DOMAIN bucket : k[2] = version(r) => k[1] \in {"lock", "expiry"}
           /\ run[r].pc = "end" => comments[issue_number(r)] = <<ExpiryJobError>>

\* The creation of the purge issue was refused and the run has ended.
C15_Witness ==
    \E r \in Run :
        /\ Answered(r, "post", <<"issues", "">>, 500)
        /\ run[r].pc = "end"
        /\ comments[issue_number(r)] = <<ExpiryJobError>>

\* C16: every put that a run starts on the all-versions pointer, whether its
\* version expires or not, has the version and the index_time of the run as body,
\* never the placeholder; and the call of fill_latest on that pointer starts this
\* put whenever the pointer is absent or holds an older index_time, and starts no
\* put otherwise.
C16_LatestAllGetsRealCandidate ==
    [][\A r \in Run :
        /\ \A w \in PutsOf(run'[r], latestAll) \ PutsOn(r, latestAll) :
              /\ run'[r].writes[w].Body = [version |-> version(r),
                                           index_time |-> run[r].index_time]
              /\ run'[r].writes[w].Body.version # ""
              /\ run'[r].writes[w].Body.index_time \in Clock
        /\ FillLatestReturns(r, latestAll)
           => IF \/ latestAll \notin DOMAIN bucket
                 \/ bucket[latestAll].index_time < run[r].index_time
              THEN PutStarted(r, latestAll, [version |-> version(r),
                                             index_time |-> run[r].index_time])
              ELSE NoPutStarted(r)]_vars

\* The run of an expiring version has met an older all-versions pointer and has
\* replaced it by its own version and index_time.
C16_Witness ==
    \E r \in Run :
        /\ run[r].has_expiry
        /\ Answered(r, "get", latestAll, 200)
        /\ PutsOn(r, latestAll) # {}
        /\ bucket[latestAll] = [version |-> version(r), index_time |-> run[r].index_time]

\* Run r has read the pointer file l and found it without an index_time.
Malformed(r, l) ==
    /\ Answered(r, "get", l, 200)
    /\ l \in DOMAIN bucket
    /\ ~hasIndexTime(bucket[l])

\* C17: when a run reads an existing pointer file (persistent or all-versions)
\* that has no index_time, the run fails with the error "latest file should
\* contain a 'index_time' number"; it starts no put on that pointer, and when the
\* pointer is the persistent one it neither reads nor puts the all-versions
\* pointer; the file is left as it was, the lock is not deleted, the issue is not
\* closed, and a run that reaches its end has posted that error as its comment.
C17_MalformedPointerFailsRun ==
    \A r \in Run : \A l \in {latestPersistent, latestAll} :
        Malformed(r, l)
        => /\ run[r].e = LatestError
           /\ run[r].pc \in {"comment", "end", "unhandled"}
           /\ PutsOn(r, l) = {}
           /\ l = latestPersistent
              => PutsOn(r, latestAll) = {} /\ ~Called(r, "get", latestAll)
           /\ ~Called(r, "delete", lock(version(r)))
           /\ ~Called(r, "close", issue(r))
           /\ lock(version(r)) \in DOMAIN bucket
           /\ issue_number(r) \notin closed
           /\ run[r].pc = "end" => comments[issue_number(r)] = <<LatestError>>

\* The all-versions pointer had no index_time: the run has ended with the error,
\* after it had put the persistent pointer, which it examined first.
C17_Witness ==
    \E r \in Run :
        /\ Malformed(r, latestAll)
        /\ run[r].pc = "end"
        /\ PutsOn(r, latestPersistent) # {}
        /\ comments[issue_number(r)] = <<LatestError>>

\* C18 as claimed (its part on the final state): when the process of a run that
\* has passed the setup is over, exactly one of the two has happened: the issue
\* of the run was closed, or a comment with the error was posted on it.
C18_Claimed_ClosedOrCommentedAtEnd ==
    \A r \in Run :
        (Terminated(r) /\ Called(r, "head", lock(version(r))))
        => (issue_number(r) \in closed) # (comments[issue_number(r)] # <<>>)

====
